---- MODULE Spec2Model ----
(***************************************************************************)
(* gym-locm environment adapters: LOCMBattleEnv / LOCMBattleSingleEnv /    *)
(* LOCMBattleSelfPlayEnv (envs/battle.py) and LOCMDraftEnv /               *)
(* LOCMDraftSingleEnv / LOCMDraftSelfPlayEnv (envs/draft.py).              *)
(*                                                                         *)
(* The rules engine (gym_locm.engine) and the base class LOCMEnv           *)
(* (gym_locm.envs.base_env) are collaborators of the adapters; they are    *)
(* modelled here through the contract the adapters consume.                *)
(***************************************************************************)
EXTENDS Integers, Sequences, FiniteSets, TLC

VARIABLES
    env,            \* the environment class of this instance
    cfg,            \* constructor arguments (never change)
    play_first,     \* self.play_first (the self-play battle env rewrites it)
    state,          \* self.state: the engine state
    rewards,        \* self.rewards
    choices,        \* self.choices (draft)
    draft_ordering, \* self.draft_ordering (draft)
    results,        \* self.results (draft)
    pc,             \* position inside a wrapped battle reset / step call
    player,         \* local `player` of the wrapped battle step
    was_invalid,    \* local `was_invalid` of the wrapped battle step
    last,           \* locals (state, reward, done, info) of the running call
    ret,            \* what the last finished reset / step call gave its caller
    resets,         \* number of reset calls made so far
    queries,        \* opponent queries made by the running / last call
    fallbacks,      \* forced fallback actions applied by the running / last call
    illegalOnly,    \* every opponent reply of the running / last call was invalid
    winBy,          \* which action of the episode decided the winner
    actedAfterWin,  \* an engine action was applied to a decided game
    asked,          \* the running / last call's last query of the adversary
                    \* policy: the observation it was handed, and the engine
                    \* state and choices at that moment
    pk              \* a packer / assembler call on its own: arguments and result

vars == <<env, cfg, play_first, state, rewards, choices, draft_ordering,
          results, pc, player, was_invalid, last, ret, resets, queries,
          fallbacks, illegalOnly, winBy, actedAfterWin, asked, pk>>

-----------------------------------------------------------------------------
(* Bounds of the model *)

\* engine turn numbers from MaxTurn on are identified
MaxTurn == 3
\* opponent queries answered inside one reset / step call
MaxOppMoves == 2
\* reset calls in one behaviour
MaxResets == 2
\* cards in a packer input on top of the capacity, and card values
MaxOver == 1

-----------------------------------------------------------------------------
(* The engine contract (gym_locm.engine) *)

FIRST == 0
SECOND == 1
NoWinner == -1
\* the first round of a battle cannot end the game (players start at full health)
EarliestWinTurn == 2

Other(p) == IF p = FIRST THEN SECOND ELSE FIRST

Max(a, b) == IF a >= b THEN a ELSE b
Min(a, b) == IF a <= b THEN a ELSE b

\* abstract engine actions of the battle phase; NoAction is decode_action's None
ActKinds == {"pass", "ok", "win", "illegal"}
NoAction == "None"

\* the state a battle starts from, once both players have drafted
BattleStart ==
    [phase |-> "BATTLE", current |-> FIRST, winner |-> NoWinner,
     invalid |-> FALSE, turn |-> 1, picks |-> 0, hand |-> <<>>,
     decks |-> <<<<>>, <<>>>>]

\* the engine actions the acting player can choose from in st
OfferedKinds(st) ==
    IF st.turn >= EarliestWinTurn THEN ActKinds ELSE ActKinds \ {"win"}

\* State.act during the battle phase: the set of states it may lead to.
\* pass hands the turn over (and may run the incoming player out of cards);
\* an action the engine rejects only raises was_last_action_invalid.
EngineAct(st, a) ==
    CASE a = "pass" ->
            LET nxt == [st EXCEPT !.current = Other(st.current),
                                  !.turn = IF st.current = SECOND
                                           THEN Min(st.turn + 1, MaxTurn)
                                           ELSE st.turn,
                                  !.invalid = FALSE]
            IN  {nxt} \cup
                (IF st.turn >= EarliestWinTurn /\ st.winner = NoWinner
                 THEN {[nxt EXCEPT !.winner = st.current]} ELSE {})
      [] a = "ok" -> {[st EXCEPT !.invalid = FALSE]}
      [] a = "win" ->
            {[st EXCEPT !.invalid = FALSE,
                        !.winner = IF st.winner = NoWinner THEN st.current
                                   ELSE st.winner]}
      [] OTHER -> {[st EXCEPT !.invalid = TRUE]}

\* LOCMEnv._battle_is_finished
BattleIsFinished(st) == st.winner # NoWinner

\* LOCMEnv._draft_is_finished
DraftIsFinished(st) == st.phase # "DRAFT"

-----------------------------------------------------------------------------
(* Feature encoders of the base class *)

\* encode_card: 16 features, none of them zero
EncodeCard(c) == [j \in 1..16 |-> 16 * c + j]
\* encode_friendly_card_on_board: 9 features
EncodeFriendlyCardOnBoard(c) == [j \in 1..9 |-> 16 * c + j]
\* encode_enemy_card_on_board: 8 features
EncodeEnemyCardOnBoard(c) == [j \in 1..8 |-> 16 * c + j]
\* encode_players: 2 x (hp, mana, next_rune, next_draw)
EncodePlayers(p0, p1) == <<p0 + 1, 1, 1, 1, p1 + 1, 1, 1, 1>>

RECURSIVE Flatten(_)
Flatten(ss) == IF ss = <<>> THEN <<>> ELSE Head(ss) \o Flatten(Tail(ss))

\* list(map(self.encode_card, cards)) and its two board variants
EncodeHand(cards) == [i \in 1..Len(cards) |-> EncodeCard(cards[i])]
EncodeOwnLane(cards) == [i \in 1..Len(cards) |-> EncodeFriendlyCardOnBoard(cards[i])]
EncodeOppLane(cards) == [i \in 1..Len(cards) |-> EncodeEnemyCardOnBoard(cards[i])]

-----------------------------------------------------------------------------
(* LOCMBattleEnv: observation shape and assembler *)

player_features == 4
cards_in_hand == 8
friendly_cards_on_board == 6
friendly_board_card_features == 9
enemy_cards_on_board == 6
enemy_board_card_features == 8
lane_capacity == 3

card_features_battle(items) == IF items THEN 16 ELSE 12

\* self.state_shape of LOCMBattleEnv.__init__
BattleStateShape(items) ==
    player_features * 2
    + cards_in_hand * card_features_battle(items)
    + friendly_cards_on_board * friendly_board_card_features
    + enemy_cards_on_board * enemy_board_card_features

\* range(n) as the sequence of its elements: empty when n <= 0
Range(n) == [i \in 1..Max(n, 0) |-> i - 1]

FillCards_PadsOneLess(card_list, up_to, features) ==
    card_list \o [i \in 1..Max(up_to - Len(card_list) - 1, 0) |->
                    [j \in 1..features |-> 0]]

FillCards_Truncates(card_list, up_to, features) ==
    SubSeq(card_list, 1, Min(Len(card_list), up_to))
        \o [i \in 1..Max(up_to - Len(card_list), 0) |-> [j \in 1..features |-> 0]]

\* fill_cards of _encode_state_battle
FillCards(card_list, up_to, features) ==
    LET remaining_cards == up_to - Len(card_list)
    IN  card_list \o [i \in 1..Len(Range(remaining_cards)) |->
                        [j \in 1..features |-> 0]]

\* hand[4:] for every card of the hand
ClipItems(hand) == [i \in 1..Len(hand) |-> SubSeq(hand[i], 5, Len(hand[i]))]

\* the card area of _encode_state_battle: hand, own lanes, opposing lanes
AllCards(items, hand, own, opp) ==
    LET h1 == EncodeHand(hand)
        h2 == IF ~items THEN ClipItems(h1) ELSE h1
        h3 == FillCards(h2, cards_in_hand, card_features_battle(items))
        OwnLane(l) == Flatten(FillCards(EncodeOwnLane(l),
                                        lane_capacity, friendly_board_card_features))
        OppLane(l) == Flatten(FillCards(EncodeOppLane(l),
                                        lane_capacity, enemy_board_card_features))
    IN  Flatten(h3) \o OwnLane(own[1]) \o OwnLane(own[2])
                    \o OppLane(opp[1]) \o OppLane(opp[2])

\* _encode_state_battle: the slice assignment encoded_state[8:] = ... raises
\* when the card area does not have state_shape - 8 entries
EncodeStateBattle(items, p0, p1, hand, own, opp) ==
    LET all_cards == AllCards(items, hand, own, opp)
    IN  IF Len(all_cards) = BattleStateShape(items) - 8
        THEN [err |-> "none", vec |-> EncodePlayers(p0, p1) \o all_cards]
        ELSE [err |-> "ValueError", vec |-> <<>>]

-----------------------------------------------------------------------------
(* The engine contract during the draft phase *)

\* k and n of LOCMDraftEnv.__init__: k cards are offered, n picks per player
\* (the instances modelled are constructed with n = 2)
k == 3
NPicks == 2

Card(id, cost) == [id |-> id, cost |-> cost]

\* the hands the engine may offer in a draft turn
OfferedHands ==
    { <<Card(1, 0), Card(2, 12), Card(3, 1)>>,
      <<Card(3, 1), Card(2, 12), Card(2, 12)>> }

\* a fresh State: the draft phase, first turn, some hand offered
DraftStarts ==
    { [phase |-> "DRAFT", current |-> FIRST, winner |-> NoWinner,
       invalid |-> FALSE, turn |-> 1, picks |-> 0, hand |-> h,
       decks |-> <<<<>>, <<>>>>] : h \in OfferedHands }

\* a draft action: Action(ActionType.PICK, origin)
Pick(origin) == [origin |-> origin]

\* State.act during the draft phase: the acting player drafts hand[origin]
\* (the first card when origin names no offered card); the second player sees
\* the same offer, then the next offer is dealt; after n picks each, the battle
\* starts.
EngineDraftAct(st, action) ==
    LET idx == IF 0 <= action.origin /\ action.origin < k THEN action.origin ELSE 0
        decks2 == [st.decks EXCEPT ![st.current + 1] = Append(@, st.hand[idx + 1])]
        picks2 == st.picks + 1
    IN  IF st.current = FIRST
        THEN {[st EXCEPT !.decks = decks2, !.picks = picks2, !.current = SECOND,
                         !.invalid = FALSE]}
        ELSE IF picks2 >= 2 * NPicks
        THEN {[BattleStart EXCEPT !.decks = decks2, !.picks = picks2]}
        ELSE {[st EXCEPT !.decks = decks2, !.picks = picks2, !.current = FIRST,
                         !.turn = st.turn + 1, !.hand = h, !.invalid = FALSE]
                : h \in OfferedHands \ {st.hand}}

\* State.clone
Clone(st) == st

-----------------------------------------------------------------------------
(* Rewards: exact fractions (np.mean of +1 / -1 outcomes) *)

Q(n, d) == [num |-> n, den |-> d]
QNeg(q) == [q EXCEPT !.num = 0 - q.num]
QAdd(a, b) ==
    IF a.den = b.den THEN Q(a.num + b.num, a.den)
    ELSE Q(a.num * b.den + b.num * a.den, a.den * b.den)
QIsZero(q) == q.num = 0
QEq(a, b) == a.num * b.den = b.num * a.den

RECURSIVE SeqSum(_)
SeqSum(s) == IF s = <<>> THEN 0 ELSE Head(s) + SeqSum(Tail(s))

Mean_Sum(s) == Q(SeqSum(s), 1)

\* np.mean
Mean(s) == Q(SeqSum(s), Len(s))

AddToLast_First(rw, r) == [rw EXCEPT ![1] = QAdd(@, r)]

\* rewards[-1] += reward
AddToLast(rw, r) == [rw EXCEPT ![Len(rw)] = QAdd(@, r)]

-----------------------------------------------------------------------------
(* Observations *)

\* what an assembler that is `pass` returns: None
NoObs == [isNone |-> TRUE, len |-> 0, vec |-> <<>>, view |-> <<>>]

\* the adversary policy has not been asked
NoAsk == [asked |-> FALSE, obs |-> NoObs, state |-> <<>>, choices |-> <<>>]

\* self.adversary_policy(obs), called while the engine is in st with choices ch
Ask(obs, st, ch) == [asked |-> TRUE, obs |-> obs, state |-> st, choices |-> ch]

\* boards within the engine's capacities (hand <= 8, every lane <= 3)
SeqOfLen(n) == [i \in 1..n |-> 1 + (i % 2)]
Boards ==
    [hand : {SeqOfLen(n) : n \in {0, 1, cards_in_hand}},
     own : {<<SeqOfLen(a), SeqOfLen(b)>> : a, b \in {0, lane_capacity}},
     opp : {<<SeqOfLen(a), SeqOfLen(b)>> : a, b \in {0, 2, lane_capacity}}]

\* the lengths _encode_state_battle can return over those boards
BattleObsLensItems ==
    {Len(EncodeStateBattle(TRUE, FIRST, SECOND, b.hand, b.own, b.opp).vec) : b \in Boards}
BattleObsLensNoItems ==
    {Len(EncodeStateBattle(FALSE, FIRST, SECOND, b.hand, b.own, b.opp).vec) : b \in Boards}
BattleObsLens(items) == IF items THEN BattleObsLensItems ELSE BattleObsLensNoItems

\* the battle observation of st: its length, and the engine state it shows
\* (the acting player first)
BattleObs(st, n) ==
    [isNone |-> FALSE, len |-> n, vec |-> <<>>,
     view |-> <<st.current, st.turn, st.winner>>]

-----------------------------------------------------------------------------
(* LOCMDraftEnv: observation shape and assembler *)

card_features == 16
mana_buckets == 13

\* self.state_shape of LOCMDraftEnv.__init__
DraftStateShape(c) ==
    LET cards_in_state == IF c.use_draft_history THEN NPicks + k ELSE k
    IN  cards_in_state * card_features
        + (IF c.use_mana_curve THEN mana_buckets ELSE 0)

\* encode_card of a draft card: 16 features, none of them zero
EncodeDraftCard(c) == [j \in 1..card_features |-> 100 * c.id + 10 * c.cost + j]

\* sorted(range(len(keys)), key=keys.__getitem__): stable, ascending (0-based)
StableOrder_TiesReversed(keys) ==
    LET n == Len(keys)
        Rank(i) == Cardinality({j \in 1..n : keys[j] < keys[i]
                                             \/ (keys[j] = keys[i] /\ j > i)})
    IN  [p \in 1..n |-> (CHOOSE i \in 1..n : Rank(i) = p - 1) - 1]

StableOrder(keys) ==
    LET n == Len(keys)
        Rank(i) == Cardinality({j \in 1..n : keys[j] < keys[i]
                                             \/ (keys[j] = keys[i] /\ j < i)})
    IN  [p \in 1..n |-> (CHOOSE i \in 1..n : Rank(i) = p - 1) - 1]

\* encoded_state[lo:hi] = vals, with lo < 0 and hi = None standing for the end
WriteSlice(vec, lo, vals) ==
    LET start == Max(Len(vec) + lo, 0)
    IN  [i \in 1..Len(vec) |->
            IF start < i /\ i <= start + Len(vals) THEN vals[i - start] ELSE vec[i]]

RECURSIVE ChoiceLoop_IgnoresOrdering(_, _, _, _)
ChoiceLoop_IgnoresOrdering(vec, i, card_choices, ord) ==
    IF i >= Len(card_choices) THEN vec
    ELSE LET lo == 0 - (k - i) * card_features
         IN  ChoiceLoop_IgnoresOrdering(
                 WriteSlice(vec, lo, EncodeDraftCard(card_choices[i + 1])),
                 i + 1, card_choices, ord)

\* for i in range(len(card_choices)): the current-choice block
RECURSIVE ChoiceLoop(_, _, _, _)
ChoiceLoop(vec, i, card_choices, ord) ==
    IF i >= Len(card_choices) THEN vec
    ELSE LET index == ord[i + 1]
             lo == 0 - (k - i) * card_features
         IN  ChoiceLoop(WriteSlice(vec, lo, EncodeDraftCard(card_choices[index + 1])),
                        i + 1, card_choices, ord)

RECURSIVE HistoryLoop_RightAligned(_, _, _)
HistoryLoop_RightAligned(vec, j, chosen_cards) ==
    IF j >= Len(chosen_cards) THEN vec
    ELSE LET lo == 0 - (Len(chosen_cards) + k - j) * card_features
         IN  HistoryLoop_RightAligned(
                 WriteSlice(vec, lo, EncodeDraftCard(chosen_cards[j + 1])),
                 j + 1, chosen_cards)

\* for j, card in enumerate(chosen_cards): the history block
RECURSIVE HistoryLoop(_, _, _)
HistoryLoop(vec, j, chosen_cards) ==
    IF j >= Len(chosen_cards) THEN vec
    ELSE LET lo == 0 - (NPicks + k - j) * card_features
         IN  HistoryLoop(WriteSlice(vec, lo, EncodeDraftCard(chosen_cards[j + 1])),
                         j + 1, chosen_cards)

RECURSIVE ManaLoop_AtEnd(_, _, _)
ManaLoop_AtEnd(vec, j, chosen_cards) ==
    IF j >= Len(chosen_cards) THEN vec
    ELSE ManaLoop_AtEnd(
             [vec EXCEPT ![Len(vec) - mana_buckets + chosen_cards[j + 1].cost + 1] = @ + 1],
             j + 1, chosen_cards)

\* for chosen_card in chosen_cards: encoded_state[chosen_card.cost] += 1
RECURSIVE ManaLoop(_, _, _)
ManaLoop(vec, j, chosen_cards) ==
    IF j >= Len(chosen_cards) THEN vec
    ELSE ManaLoop([vec EXCEPT ![chosen_cards[j + 1].cost + 1] = @ + 1],
                  j + 1, chosen_cards)

ChosenCards_OtherPlayer(ch, st) == ch[(1 - st.current) + 1]

\* chosen_cards = self.choices[self.state.current_player.id]
ChosenCards(ch, st) == ch[st.current + 1]

\* _encode_state_draft: the vector, and self.draft_ordering as it leaves it
EncodeStateDraft(c, st, ch, ord) ==
    LET zero == [i \in 1..DraftStateShape(c) |-> 0]
        chosen0 == ChosenCards(ch, st)
        finished == DraftIsFinished(st)
        card_choices == SubSeq(st.hand, 1, Min(k, Len(st.hand)))
        ord1 == IF finished THEN ord
                ELSE IF c.sort_cards
                THEN StableOrder([i \in 1..k |-> card_choices[i].id])
                ELSE [i \in 1..k |-> i - 1]
        v1 == IF finished THEN zero ELSE ChoiceLoop(zero, 0, card_choices, ord1)
        chosen1 == IF c.use_draft_history /\ c.sort_cards
                   THEN LET o == StableOrder([i \in 1..Len(chosen0) |-> chosen0[i].id])
                        IN  [i \in 1..Len(chosen0) |-> chosen0[o[i] + 1]]
                   ELSE chosen0
        v2 == IF c.use_draft_history THEN HistoryLoop(v1, 0, chosen1) ELSE v1
        v3 == IF c.use_mana_curve THEN ManaLoop(v2, 0, chosen1) ELSE v2
    IN  [obs |-> [isNone |-> FALSE, len |-> Len(v3), vec |-> v3,
                  view |-> <<st.current, st.turn, st.winner>>],
         draft_ordering |-> ord1]

-----------------------------------------------------------------------------
(* LOCMEnv.encode_state: only the assembler of the engine's phase is active *)

IsBattleEnv(e) == e \in {"LOCMBattleEnv", "LOCMBattleSingleEnv", "LOCMBattleSelfPlayEnv"}
IsDraftEnv(e) == e \in {"LOCMDraftEnv", "LOCMDraftSingleEnv", "LOCMDraftSelfPlayEnv"}

\* the (observation, draft_ordering) pairs encode_state can give
EncodeState(e, c, st, ch, ord) ==
    IF st.phase = "DRAFT"
    THEN IF IsDraftEnv(e) THEN {EncodeStateDraft(c, st, ch, ord)}
         ELSE {[obs |-> NoObs, draft_ordering |-> ord]}
    ELSE IF IsBattleEnv(e)
         THEN {[obs |-> BattleObs(st, n), draft_ordering |-> ord]
                 : n \in BattleObsLens(c.items)}
         ELSE {[obs |-> NoObs, draft_ordering |-> ord]}

-----------------------------------------------------------------------------
(* Actions handed to step *)

\* form "obj": an Action object; "code": an integer (or a value int() accepts);
\* "str": a value int() rejects with ValueError; "none": one it rejects with
\* TypeError.  The battle code 0 is written "0"; any other battle code is named
\* by what it decodes to in the current state.
In(form, v) == [form |-> form, v |-> v]

BattleInputs(st) ==
    {In("obj", a) : a \in OfferedKinds(st)}
    \cup {In("code", a) : a \in (OfferedKinds(st) \ {"pass"})
                                \cup {"0", "undecodable", "outofrange"}}
    \cup {In("str", "x"), In("none", "x")}

DraftInputs ==
    {In("code", o) : o \in 0..(k - 1)} \cup {In("str", "x")}

\* int(action): which exception it raises, if any
IntError(inp) ==
    IF inp.form = "str" THEN "ValueError"
    ELSE IF inp.form = "none" THEN "TypeError" ELSE "none"

\* LOCMEnv.decode_action in the battle phase: code 0 is the pass action; a code
\* with nothing to act on at its position gives None; a code outside the
\* action space raises MalformedActionError
DecodeBattleAction(code) ==
    IF code = "0" THEN "pass"
    ELSE IF code = "undecodable" THEN NoAction
    ELSE code

BattleCodeOutOfRange(code) == code = "outofrange"

\* LOCMEnv.decode_action in the draft phase
DecodeDraftAction(code) == Pick(code)

DraftCodeOutOfRange(code) == ~(0 <= code /\ code < k)

-----------------------------------------------------------------------------
(* LOCMBattleEnv.step *)

StepGuardEnded_Never(st) == FALSE

\* if self._battle_is_finished: raise GameIsEndedError()
StepGuardEnded(st) == BattleIsFinished(st)

ApplyDecoded_ActsAnyway(st, action) ==
    IF action # NoAction THEN EngineAct(st, action)
    ELSE EngineAct(st, "pass")

\* if action is not None: state.act(action) else: was_last_action_invalid = True
ApplyDecoded(st, action) ==
    IF action # NoAction THEN EngineAct(st, action)
    ELSE {[st EXCEPT !.invalid = TRUE]}

StepDone_Never(winner) == FALSE

\* done = winner is not None
StepDone(winner) == winner # NoWinner

\* reward = 0; if winner is not None: reward = 1 if winner == FIRST else -1
RawReward(winner) ==
    IF winner # NoWinner THEN (IF winner = FIRST THEN Q(1, 1) ELSE Q(0 - 1, 1))
    ELSE Q(0, 1)

\* what a call raised without returning
Raised(err, st, rw) ==
    [kind |-> err, state |-> st, rewards |-> rw, obs |-> NoObs,
     reward |-> Q(0, 1), done |-> FALSE,
     info |-> [phase |-> st.phase, turn |-> st.turn, winner |-> st.winner,
               invalid |-> st.invalid],
     acted |-> FALSE]

\* the tuple step returns once the action is settled
StepReturn(e, c, st2, rw, acted) ==
    LET winner == st2.winner
        info == [phase |-> st2.phase, turn |-> st2.turn, winner |-> winner,
                 invalid |-> st2.invalid]
    IN  {[kind |-> "ok", state |-> st2,
          rewards |-> IF winner # NoWinner THEN AddToLast(rw, RawReward(winner)) ELSE rw,
          obs |-> o.obs, reward |-> RawReward(winner), done |-> StepDone(winner),
          info |-> info, acted |-> acted]
            : o \in EncodeState(e, c, st2, <<>>, <<>>)}

\* LOCMBattleEnv.step(action): every outcome of one call
BattleStep(e, c, st, rw, inp) ==
    IF StepGuardEnded(st) THEN {Raised("GameIsEndedError", st, rw)}
    ELSE IF inp.form \notin {"obj", "code"}
    THEN {Raised(IF IntError(inp) = "ValueError" THEN "MalformedActionError"
                 ELSE IntError(inp), st, rw)}
    ELSE IF inp.form = "code" /\ BattleCodeOutOfRange(inp.v)
    THEN {Raised("MalformedActionError", st, rw)}
    ELSE LET action == IF inp.form = "obj" THEN inp.v ELSE DecodeBattleAction(inp.v)
         IN  UNION {StepReturn(e, c, st2, rw, action # NoAction)
                      : st2 \in ApplyDecoded(st, action)}

-----------------------------------------------------------------------------
(* LOCMDraftEnv.step and do_match *)

\* if self._draft_is_finished: raise GameIsEndedError()
DraftGuardEnded(st) == DraftIsFinished(st)

ChosenIndex_Unmapped(action, ord) ==
    IF 0 <= action.origin /\ action.origin < k THEN action.origin ELSE 0

\* if 0 <= action.origin < self.k: draft_ordering[origin] else 0
ChosenIndex(action, ord) ==
    IF 0 <= action.origin /\ action.origin < k THEN ord[action.origin + 1] ELSE 0

\* do_match: while state.winner is None the battle agents act on st; either
\* player may win, and a state that has a winner is returned as it is
DoMatch(st) ==
    IF st.winner # NoWinner THEN {st}
    ELSE {[st EXCEPT !.winner = w] : w \in {FIRST, SECOND}}

\* 1 if winner == PlayerOrder.FIRST else -1
Outcome(winner) == IF winner = FIRST THEN 1 ELSE 0 - 1

\* state_copy = self.state.clone(), once for each of the n trials
TrialStarts(st, n) == [i \in 1..n |-> Clone(st)]

\* the states the n trials may end in, trial i played from its own copy
Trials(st, n) ==
    LET starts == TrialStarts(st, n)
    IN  {ms \in [1..n -> UNION {DoMatch(starts[i]) : i \in 1..n}] :
            \A i \in 1..n : ms[i] \in DoMatch(starts[i])}

Evaluate_OnLiveState(c, st, res) ==
    IF c.evaluation_battles = 1
    THEN {[state |-> m, results |-> <<Outcome(m.winner)>>, winners |-> <<m.winner>>]
            : m \in DoMatch(st)}
    ELSE {[state |-> m,
           results |-> res \o [i \in 1..c.evaluation_battles |-> Outcome(m.winner)],
           winners |-> [i \in 1..c.evaluation_battles |-> m.winner]]
            : m \in DoMatch(st)}

\* the evaluation at the end of the draft: live state, results, info["winner"]
Evaluate(c, st, res) ==
    IF c.evaluation_battles = 1
    THEN {[state |-> m, results |-> <<Outcome(m.winner)>>, winners |-> <<m.winner>>]
            : m \in DoMatch(st)}
    ELSE {[state |-> st,
           results |-> res \o [i \in 1..c.evaluation_battles |-> Outcome(ms[i].winner)],
           winners |-> [i \in 1..c.evaluation_battles |-> ms[i].winner]]
            : ms \in Trials(st, c.evaluation_battles)}

DraftRaised(err, st, rw, ch, ord, res) ==
    [kind |-> err, state |-> st, rewards |-> rw, choices |-> ch,
     draft_ordering |-> ord, results |-> res, obs |-> NoObs,
     reward |-> Q(0, 1), done |-> FALSE,
     info |-> [phase |-> st.phase, turn |-> st.turn, winner |-> <<>>]]

EvaluationDue_Always(st) == TRUE

\* if self._draft_is_finished, asked after state.act(action)
EvaluationDue(st) == DraftIsFinished(st)

\* LOCMDraftEnv.step(action): every outcome of one call
DraftStep(e, c, st, rw, ch, ord, res, inp) ==
    IF DraftGuardEnded(st) THEN {DraftRaised("GameIsEndedError", st, rw, ch, ord, res)}
    ELSE IF inp.form \notin {"obj", "code"}
    THEN {DraftRaised(IF IntError(inp) = "ValueError" THEN "MalformedActionError"
                      ELSE IntError(inp), st, rw, ch, ord, res)}
    ELSE IF inp.form = "code" /\ DraftCodeOutOfRange(inp.v)
    THEN {DraftRaised("MalformedActionError", st, rw, ch, ord, res)}
    ELSE
    LET action == IF inp.form = "obj" THEN inp.v ELSE DecodeDraftAction(inp.v)
        chosen_index == ChosenIndex(action, ord)
        chosen_card == st.hand[chosen_index + 1]
        ch2 == [ch EXCEPT ![st.current + 1] = Append(@, chosen_card)]
    IN  UNION {
          IF EvaluationDue(st2)
          THEN UNION {
                 {[kind |-> "ok", state |-> ev.state,
                   rewards |-> AddToLast(rw, Mean(ev.results)),
                   choices |-> ch2, draft_ordering |-> o.draft_ordering,
                   results |-> ev.results, obs |-> o.obs,
                   reward |-> Mean(ev.results), done |-> TRUE,
                   info |-> [phase |-> st2.phase, winner |-> ev.winners]]
                    : o \in EncodeState(e, c, ev.state, ch2, ord)}
                 : ev \in Evaluate(c, st2, res)}
          ELSE {[kind |-> "ok", state |-> st2, rewards |-> rw,
                 choices |-> ch2, draft_ordering |-> o.draft_ordering,
                 results |-> res, obs |-> o.obs,
                 reward |-> Q(0, 1), done |-> FALSE,
                 info |-> [phase |-> st2.phase, turn |-> st2.turn, winner |-> <<>>]]
                  : o \in EncodeState(e, c, st2, ch2, ord)}
          : st2 \in EngineDraftAct(st, action)}

-----------------------------------------------------------------------------
(* The opponent loop of LOCMBattleSingleEnv / LOCMBattleSelfPlayEnv *)

OppLoopCond_Never(st, pl) == FALSE

\* while self.state.current_player.id != player and self.state.winner is None
OppLoopCond(st, pl) == st.current # pl /\ st.winner = NoWinner

\* while self.state.current_player.id != PlayerOrder.SECOND
ResetLoopCond(st) == st.current # SECOND

NeedsFallback_Never(info, done) == FALSE

\* if info["invalid"] and not done
NeedsFallback(info, done) == info.invalid /\ ~done

\* the fallback of step(0) ... break exists in the self-play reset and in both
\* step loops; the reset loop of LOCMBattleSingleEnv has none
HasFallback(e, inReset) == ~inReset \/ e = "LOCMBattleSelfPlayEnv"

LearnerReward_NoFlip(pf, reward) == reward

\* if not self.play_first: reward = -reward
LearnerReward(pf, reward) == IF ~pf THEN QNeg(reward) ELSE reward

SelfPlayToggle_Keeps(pf) == pf

\* self.play_first = not self.play_first
SelfPlayToggle(pf) == ~pf

\* what the opponent source may answer: the scripted battle agent returns an
\* Action object, the adversary policy an action code of the action space
OppReplies(e, st) ==
    IF e = "LOCMBattleSingleEnv"
    THEN {In("obj", a) : a \in OfferedKinds(st)}
    ELSE {In("code", a) : a \in (OfferedKinds(st) \ {"pass"}) \cup {"0", "undecodable"}}

\* one iteration of the loop body on reply a: super().step(a), then, where the
\* loop has it, the forced step(0).  res is the tuple the locals hold afterwards.
OppIteration(e, c, st, rw, a, inReset) ==
    UNION {
      IF o.kind = "ok" /\ HasFallback(e, inReset) /\ NeedsFallback(o.info, o.done)
      THEN {[res |-> o2, fell |-> TRUE, replyInvalid |-> o.info.invalid,
             badAct |-> (o.acted /\ BattleIsFinished(st))
                        \/ (o2.acted /\ BattleIsFinished(o.state)),
             wonBy |-> IF BattleIsFinished(o.state) THEN "opp"
                       ELSE IF BattleIsFinished(o2.state) THEN "fallback" ELSE "none"]
              : o2 \in BattleStep(e, c, o.state, o.rewards, In("code", "0"))}
      ELSE {[res |-> o, fell |-> FALSE, replyInvalid |-> o.info.invalid,
             badAct |-> o.acted /\ BattleIsFinished(st),
             wonBy |-> IF BattleIsFinished(o.state) THEN "opp" ELSE "none"]}
      : o \in BattleStep(e, c, st, rw, a)}

-----------------------------------------------------------------------------
(* The instance *)

Envs == {"LOCMBattleEnv", "LOCMBattleSingleEnv", "LOCMBattleSelfPlayEnv",
         "LOCMDraftEnv", "LOCMDraftSingleEnv", "LOCMDraftSelfPlayEnv"}

IsWrapped(e) == e \notin {"LOCMBattleEnv", "LOCMDraftEnv"}

\* the constructor arguments the classes read
Configs(e) ==
    IF IsBattleEnv(e)
    THEN [play_first : IF IsWrapped(e) THEN BOOLEAN ELSE {TRUE},
          items : BOOLEAN, use_draft_history : {FALSE}, use_mana_curve : {FALSE},
          sort_cards : {FALSE}, evaluation_battles : {1}]
    ELSE {[play_first |-> pf, items |-> TRUE, use_draft_history |-> f,
           use_mana_curve |-> f, sort_cards |-> f,
           evaluation_battles |-> IF f THEN 2 ELSE 1]
            : pf \in (IF IsWrapped(e) THEN BOOLEAN ELSE {TRUE}), f \in BOOLEAN}

NoInput == In("none", "-")

NoCall ==
    [call |-> "none", kind |-> "ok", obs |-> NoObs, reward |-> Q(0, 1),
     done |-> FALSE, info |-> <<>>, input |-> NoInput]

NoLast == [obs |-> NoObs, reward |-> Q(0, 1), done |-> FALSE, info |-> <<>>]

Ret(call, o, inp) ==
    [call |-> call, kind |-> o.kind, obs |-> o.obs, reward |-> o.reward,
     done |-> o.done, info |-> o.info, input |-> inp]

PkIdle == [stage |-> "off", card_list |-> <<>>, up_to |-> 0, features |-> 0,
           packed |-> <<>>]

\* an instance of one of the classes E as its constructor leaves it
InitOf(E) ==
    /\ env \in E
    /\ cfg \in Configs(env)
    /\ play_first = cfg.play_first
    /\ state \in (IF IsBattleEnv(env) THEN {BattleStart} ELSE DraftStarts)
    /\ rewards = <<Q(0, 1)>>
    /\ choices = <<<<>>, <<>>>>
    /\ draft_ordering = <<0, 1, 2>>
    /\ results = <<>>
    /\ pc = "idle"
    /\ player = FIRST
    /\ was_invalid = FALSE
    /\ last = NoLast
    /\ ret = NoCall
    /\ resets = 0
    /\ queries = 0
    /\ fallbacks = 0
    /\ illegalOnly = FALSE
    /\ winBy = "none"
    /\ actedAfterWin = FALSE
    /\ asked = NoAsk
    /\ pk = PkIdle

\* the harness resets an environment before it steps it, and may reset again
\* at any time between calls
MayReset == pc = "idle" /\ resets < MaxResets
MayStep == pc = "idle" /\ resets >= 1

-----------------------------------------------------------------------------
(* reset of the battle environments *)

\* LOCMBattleEnv.reset: new game, draft played through, rewards.append(0.0)
BattleResetCore(e, c, rw) ==
    {[state |-> BattleStart, rewards |-> Append(rw, Q(0, 1)), obs |-> o.obs]
       : o \in EncodeState(e, c, BattleStart, <<>>, <<>>)}

\* LOCMBattleEnv.reset
ResetBattle ==
    /\ MayReset /\ env = "LOCMBattleEnv"
    /\ \E r \in BattleResetCore(env, cfg, rewards) :
         /\ state' = r.state
         /\ rewards' = r.rewards
         /\ ret' = [NoCall EXCEPT !.call = "reset", !.obs = r.obs]
    /\ resets' = resets + 1
    /\ queries' = 0 /\ fallbacks' = 0 /\ illegalOnly' = FALSE /\ winBy' = "none"
    /\ asked' = NoAsk
    /\ UNCHANGED <<env, cfg, play_first, choices, draft_ordering, results, pc,
                   player, was_invalid, last, actedAfterWin, pk>>

\* LOCMBattleSingleEnv.reset / LOCMBattleSelfPlayEnv.reset up to the loop
ResetWrapped ==
    /\ MayReset /\ env \in {"LOCMBattleSingleEnv", "LOCMBattleSelfPlayEnv"}
    /\ \E r \in BattleResetCore(env, cfg, rewards) :
         LET pf == IF env = "LOCMBattleSelfPlayEnv" THEN SelfPlayToggle(play_first)
                   ELSE play_first
         IN  /\ state' = r.state
             /\ rewards' = r.rewards
             /\ play_first' = pf
             /\ IF ~pf /\ ResetLoopCond(r.state)
                THEN /\ pc' = "reset_opp"
                     /\ last' = [NoLast EXCEPT !.obs = r.obs]
                     /\ ret' = ret
                ELSE /\ pc' = "idle"
                     /\ last' = NoLast
                     /\ ret' = [NoCall EXCEPT !.call = "reset", !.obs = r.obs]
    /\ resets' = resets + 1
    /\ queries' = 0 /\ fallbacks' = 0 /\ illegalOnly' = TRUE /\ winBy' = "none"
    /\ asked' = NoAsk
    /\ UNCHANGED <<env, cfg, choices, draft_ordering, results, player,
                   was_invalid, actedAfterWin, pk>>

\* one iteration of the opening loop of reset (the learner plays second)
ResetOpp ==
    /\ pc = "reset_opp" /\ queries < MaxOppMoves
    /\ \E a \in OppReplies(env, state) :
       \E it \in OppIteration(env, cfg, state, rewards, a, TRUE) :
         /\ state' = it.res.state
         /\ rewards' = it.res.rewards
         /\ queries' = queries + 1
         /\ fallbacks' = fallbacks + (IF it.fell THEN 1 ELSE 0)
         /\ illegalOnly' = (illegalOnly /\ it.replyInvalid)
         /\ winBy' = IF winBy = "none" THEN it.wonBy ELSE winBy
         /\ actedAfterWin' = (actedAfterWin \/ it.badAct)
         /\ IF it.res.kind # "ok"
            THEN /\ pc' = "idle"
                 /\ last' = NoLast
                 /\ ret' = [NoCall EXCEPT !.call = "reset", !.kind = it.res.kind]
            ELSE IF ~it.fell /\ ResetLoopCond(it.res.state)
            THEN /\ pc' = "reset_opp"
                 /\ UNCHANGED <<last, ret>>
            ELSE /\ pc' = "idle"
                 /\ last' = NoLast
                 /\ ret' = [NoCall EXCEPT !.call = "reset", !.obs = last.obs]
    /\ \E q \in EncodeState(env, cfg, state, <<>>, <<>>) :
         asked' = IF env = "LOCMBattleSelfPlayEnv"
                  THEN Ask(q.obs, state, choices) ELSE asked
    /\ UNCHANGED <<env, cfg, play_first, choices, draft_ordering, results,
                   player, was_invalid, resets, pk>>

-----------------------------------------------------------------------------
(* step of the battle environments *)

\* LOCMBattleEnv.step
StepBattle ==
    /\ MayStep /\ env = "LOCMBattleEnv"
    /\ \E inp \in BattleInputs(state) :
       \E o \in BattleStep(env, cfg, state, rewards, inp) :
         /\ state' = o.state
         /\ rewards' = o.rewards
         /\ ret' = Ret("step", o, inp)
         /\ winBy' = IF winBy = "none" /\ BattleIsFinished(o.state)
                     THEN "learner" ELSE winBy
         /\ actedAfterWin' = (actedAfterWin \/ (o.acted /\ BattleIsFinished(state)))
    /\ queries' = 0 /\ fallbacks' = 0 /\ illegalOnly' = FALSE
    /\ asked' = NoAsk
    /\ UNCHANGED <<env, cfg, play_first, choices, draft_ordering, results, pc,
                   player, was_invalid, last, resets, pk>>

WrappedReturn_DropsFlag(t, wi, pf, inp) ==
    [call |-> "step", kind |-> "ok", obs |-> t.obs,
     reward |-> LearnerReward(pf, t.reward), done |-> t.done,
     info |-> [t.info EXCEPT !.invalid = FALSE], input |-> inp]

\* the tuple a wrapped step hands back: the locals, with info["invalid"] put
\* back to the learner's own flag and the reward seen from the learner's seat
WrappedReturn(t, wi, pf, inp) ==
    [call |-> "step", kind |-> "ok", obs |-> t.obs,
     reward |-> LearnerReward(pf, t.reward), done |-> t.done,
     info |-> [t.info EXCEPT !.invalid = wi], input |-> inp]

\* LOCMBattleSingleEnv.step / LOCMBattleSelfPlayEnv.step up to the loop
StepWrapped ==
    /\ MayStep /\ env \in {"LOCMBattleSingleEnv", "LOCMBattleSelfPlayEnv"}
    /\ \E inp \in BattleInputs(state) :
       \E o \in BattleStep(env, cfg, state, rewards, inp) :
         /\ player' = state.current
         /\ state' = o.state
         /\ rewards' = o.rewards
         /\ winBy' = IF winBy = "none" /\ BattleIsFinished(o.state)
                     THEN "learner" ELSE winBy
         /\ actedAfterWin' = (actedAfterWin \/ (o.acted /\ BattleIsFinished(state)))
         /\ IF o.kind # "ok"
            THEN /\ pc' = "idle"
                 /\ ret' = Ret("step", o, inp)
                 /\ UNCHANGED <<was_invalid, last>>
            ELSE /\ was_invalid' = o.info.invalid
                 /\ IF OppLoopCond(o.state, state.current)
                    THEN /\ pc' = "step_opp"
                         /\ last' = [obs |-> o.obs, reward |-> o.reward,
                                     done |-> o.done, info |-> o.info]
                         /\ ret' = [ret EXCEPT !.input = inp]
                    ELSE /\ pc' = "idle"
                         /\ last' = NoLast
                         /\ ret' = WrappedReturn(o, o.info.invalid, play_first, inp)
    /\ queries' = 0 /\ fallbacks' = 0 /\ illegalOnly' = TRUE
    /\ asked' = NoAsk
    /\ UNCHANGED <<env, cfg, play_first, choices, draft_ordering, results,
                   resets, pk>>

\* one iteration of the opponent loop of step
StepOpp ==
    /\ pc = "step_opp" /\ queries < MaxOppMoves
    /\ \E a \in OppReplies(env, state) :
       \E it \in OppIteration(env, cfg, state, rewards, a, FALSE) :
         /\ state' = it.res.state
         /\ rewards' = it.res.rewards
         /\ queries' = queries + 1
         /\ fallbacks' = fallbacks + (IF it.fell THEN 1 ELSE 0)
         /\ illegalOnly' = (illegalOnly /\ it.replyInvalid)
         /\ winBy' = IF winBy = "none" THEN it.wonBy ELSE winBy
         /\ actedAfterWin' = (actedAfterWin \/ it.badAct)
         /\ IF it.res.kind # "ok"
            THEN /\ pc' = "idle"
                 /\ last' = NoLast
                 /\ ret' = Ret("step", it.res, ret.input)
            ELSE IF ~it.fell /\ OppLoopCond(it.res.state, player)
            THEN /\ pc' = "step_opp"
                 /\ last' = [obs |-> it.res.obs, reward |-> it.res.reward,
                             done |-> it.res.done, info |-> it.res.info]
                 /\ ret' = ret
            ELSE /\ pc' = "idle"
                 /\ last' = NoLast
                 /\ ret' = WrappedReturn(it.res, was_invalid, play_first, ret.input)
    /\ \E q \in EncodeState(env, cfg, state, <<>>, <<>>) :
         asked' = IF env = "LOCMBattleSelfPlayEnv"
                  THEN Ask(q.obs, state, choices) ELSE asked
    /\ UNCHANGED <<env, cfg, play_first, choices, draft_ordering, results,
                   player, was_invalid, resets, pk>>

-----------------------------------------------------------------------------
(* reset and step of the draft environments *)

\* LOCMDraftEnv.reset (LOCMDraftSingleEnv.reset also resets its draft agent)
ResetDraft ==
    /\ MayReset /\ IsDraftEnv(env)
    /\ \E st \in DraftStarts :
       \E o \in EncodeState(env, cfg, st, <<<<>>, <<>>>>, <<0, 1, 2>>) :
         /\ state' = st
         /\ draft_ordering' = o.draft_ordering
         /\ ret' = [NoCall EXCEPT !.call = "reset", !.obs = o.obs]
    /\ results' = <<>>
    /\ choices' = <<<<>>, <<>>>>
    /\ rewards' = Append(rewards, Q(0, 1))
    /\ resets' = resets + 1
    /\ winBy' = "none"
    /\ asked' = NoAsk
    /\ UNCHANGED <<env, cfg, play_first, pc, player, was_invalid, last, queries,
                   fallbacks, illegalOnly, actedAfterWin, pk>>

\* LOCMDraftEnv.step
StepDraft ==
    /\ MayStep /\ env = "LOCMDraftEnv"
    /\ \E inp \in DraftInputs :
       \E o \in DraftStep(env, cfg, state, rewards, choices, draft_ordering,
                          results, inp) :
         /\ state' = o.state
         /\ rewards' = o.rewards
         /\ choices' = o.choices
         /\ draft_ordering' = o.draft_ordering
         /\ results' = o.results
         /\ ret' = Ret("step", o, inp)
    /\ asked' = NoAsk
    /\ UNCHANGED <<env, cfg, play_first, pc, player, was_invalid, last, resets,
                   queries, fallbacks, illegalOnly, winBy, actedAfterWin, pk>>

\* what the draft opponent may answer: the draft agent returns an Action
\* object, the adversary policy an action code of the action space
DraftOppReplies(e) ==
    IF e = "LOCMDraftSingleEnv" THEN {In("obj", Pick(o)) : o \in 0..(k - 1)}
    ELSE {In("code", o) : o \in 0..(k - 1)}

\* the second call of the base step of a wrapped draft step: an exception of
\* the first call skips it
SecondPick(e, c, o1, secondIn) ==
    IF o1.kind # "ok" THEN {o1}
    ELSE DraftStep(e, c, o1.state, o1.rewards, o1.choices, o1.draft_ordering,
                   o1.results, secondIn)

\* LOCMDraftSingleEnv.step / LOCMDraftSelfPlayEnv.step: two calls of the base
\* step, the learner's action first if play_first
TwoPicks(e, c, st, rw, ch, ord, res, firstIn, secondIn) ==
    UNION {SecondPick(e, c, o1, secondIn)
             : o1 \in DraftStep(e, c, st, rw, ch, ord, res, firstIn)}

\* LOCMDraftSelfPlayEnv.step: obs = self.encode_state() is taken when step is
\* entered and handed to the adversary policy when its action is needed, which
\* is after the learner's pick if play_first; an exception of the learner's
\* pick leaves the policy unasked
AdversaryQuery(e, pf, obs, st, ch, o1) ==
    IF e # "LOCMDraftSelfPlayEnv" THEN NoAsk
    ELSE IF ~pf THEN Ask(obs, st, ch)
    ELSE IF o1.kind = "ok" THEN Ask(obs, o1.state, o1.choices)
    ELSE NoAsk

StepDraftWrapped ==
    /\ MayStep /\ env \in {"LOCMDraftSingleEnv", "LOCMDraftSelfPlayEnv"}
    /\ \E inp \in DraftInputs :
       \E opp \in DraftOppReplies(env) :
       \E q \in EncodeState(env, cfg, state, choices, draft_ordering) :
       \E o1 \in DraftStep(env, cfg, state, rewards, choices,
                           IF env = "LOCMDraftSelfPlayEnv" THEN q.draft_ordering
                           ELSE draft_ordering,
                           results, IF play_first THEN inp ELSE opp) :
       \E o \in SecondPick(env, cfg, o1, IF play_first THEN opp ELSE inp) :
         /\ state' = o.state
         /\ rewards' = o.rewards
         /\ choices' = o.choices
         /\ draft_ordering' = o.draft_ordering
         /\ results' = o.results
         /\ ret' = IF o.kind = "ok" /\ ~play_first
                   THEN [Ret("step", o, inp) EXCEPT !.reward = QNeg(o.reward)]
                   ELSE Ret("step", o, inp)
         /\ asked' = AdversaryQuery(env, play_first, q.obs, state, choices, o1)
    /\ UNCHANGED <<env, cfg, play_first, pc, player, was_invalid, last, resets,
                   queries, fallbacks, illegalOnly, winBy, actedAfterWin, pk>>

-----------------------------------------------------------------------------

\* the battle environments
Init == InitOf({e \in Envs : IsBattleEnv(e)})

Next ==
    \/ ResetBattle \/ ResetWrapped \/ ResetOpp
    \/ StepBattle \/ StepWrapped \/ StepOpp

Spec == Init /\ [][Next]_vars

\* the draft environments
InitDraft == InitOf({e \in Envs : IsDraftEnv(e)})

NextDraft == ResetDraft \/ StepDraft \/ StepDraftWrapped

SpecDraft == InitDraft /\ [][NextDraft]_vars

\* all six environments
InitAll == InitOf(Envs)

NextAll == Next \/ NextDraft

SpecAll == InitAll /\ [][NextAll]_vars

-----------------------------------------------------------------------------
(* The slot packer on its own: fill_cards applied at its three call sites *)

CardIds == {1, 2}

\* the lists of at most n card ids
RECURSIVE IdLists(_)
IdLists(n) ==
    IF n = 0 THEN {<<>>}
    ELSE IdLists(n - 1) \cup {Append(l, c) : l \in IdLists(n - 1), c \in CardIds}

\* the arguments of the calls of fill_cards: the encoded hand (clipped without
\* items), an encoded own lane, an encoded opposing lane; occupancy up to
\* MaxOver above the capacity
PackCalls(items) ==
    {[stage |-> "in",
      card_list |-> IF items THEN EncodeHand(l) ELSE ClipItems(EncodeHand(l)),
      up_to |-> cards_in_hand, features |-> card_features_battle(items),
      packed |-> <<>>] : l \in IdLists(cards_in_hand + MaxOver)}
    \cup
    {[stage |-> "in", card_list |-> EncodeOwnLane(l),
      up_to |-> lane_capacity, features |-> friendly_board_card_features,
      packed |-> <<>>] : l \in IdLists(lane_capacity + MaxOver)}
    \cup
    {[stage |-> "in", card_list |-> EncodeOppLane(l),
      up_to |-> lane_capacity, features |-> enemy_board_card_features,
      packed |-> <<>>] : l \in IdLists(lane_capacity + MaxOver)}

InitPack ==
    /\ env = "LOCMBattleEnv"
    /\ cfg \in Configs(env)
    /\ play_first = cfg.play_first
    /\ state = BattleStart
    /\ rewards = <<Q(0, 1)>>
    /\ choices = <<<<>>, <<>>>>
    /\ draft_ordering = <<0, 1, 2>>
    /\ results = <<>>
    /\ pc = "idle"
    /\ player = FIRST
    /\ was_invalid = FALSE
    /\ last = NoLast
    /\ ret = NoCall
    /\ resets = 0
    /\ queries = 0
    /\ fallbacks = 0
    /\ illegalOnly = FALSE
    /\ winBy = "none"
    /\ actedAfterWin = FALSE
    /\ asked = NoAsk
    /\ pk \in PackCalls(cfg.items)

\* one call of fill_cards
FillCardsCall ==
    /\ pk.stage = "in"
    /\ pk' = [pk EXCEPT !.stage = "out",
                        !.packed = FillCards(pk.card_list, pk.up_to, pk.features)]
    /\ UNCHANGED <<env, cfg, play_first, state, rewards, choices, draft_ordering,
                   results, pc, player, was_invalid, last, ret, resets, queries,
                   fallbacks, illegalOnly, winBy, actedAfterWin, asked>>

NextPack == FillCardsCall

SpecPack == InitPack /\ [][NextPack]_vars

-----------------------------------------------------------------------------
(* The battle assembler on its own: _encode_state_battle over boards whose    *)
(* hand and lanes hold up to MaxOver cards more than their capacity           *)

\* an instance of class e with arguments c as its constructor leaves it, the
\* call under examination aside
Constructed(e, c) ==
    /\ env = e
    /\ cfg = c
    /\ play_first = c.play_first
    /\ state \in (IF IsBattleEnv(e) THEN {BattleStart} ELSE DraftStarts)
    /\ rewards = <<Q(0, 1)>>
    /\ choices = <<<<>>, <<>>>>
    /\ draft_ordering = <<0, 1, 2>>
    /\ results = <<>>
    /\ pc = "idle"
    /\ player = FIRST
    /\ was_invalid = FALSE
    /\ last = NoLast
    /\ ret = NoCall
    /\ resets = 0
    /\ queries = 0
    /\ fallbacks = 0
    /\ illegalOnly = FALSE
    /\ winBy = "none"
    /\ actedAfterWin = FALSE
    /\ asked = NoAsk

\* everything but the call under examination stays as it is
InstanceUnchanged ==
    UNCHANGED <<env, cfg, play_first, state, rewards, choices, draft_ordering,
                results, pc, player, was_invalid, last, ret, resets, queries,
                fallbacks, illegalOnly, winBy, actedAfterWin, asked>>

\* n distinct cards numbered from base + 1
CardsFrom(base, n) == [i \in 1..n |-> base + i]

\* the boards handed to the assembler: every occupancy of the hand and of the
\* four lanes from empty to MaxOver above the capacity
AssembleCalls(items) ==
    {[stage |-> "in", items |-> items,
      hand |-> CardsFrom(0, h),
      own |-> <<CardsFrom(10, a), CardsFrom(20, b)>>,
      opp |-> <<CardsFrom(30, c), CardsFrom(40, d)>>,
      result |-> [err |-> "none", vec |-> <<>>]]
       : h \in 0..(cards_in_hand + MaxOver),
         a \in 0..(lane_capacity + MaxOver), b \in 0..(lane_capacity + MaxOver),
         c \in 0..(lane_capacity + MaxOver), d \in 0..(lane_capacity + MaxOver)}

InitAssemble ==
    /\ \E c \in Configs("LOCMBattleEnv") :
         /\ Constructed("LOCMBattleEnv", c)
         /\ pk \in AssembleCalls(c.items)

\* one call of _encode_state_battle
EncodeStateBattleCall ==
    /\ pk.stage = "in"
    /\ pk' = [pk EXCEPT !.stage = "out",
                        !.result = EncodeStateBattle(pk.items, FIRST, SECOND,
                                                     pk.hand, pk.own, pk.opp)]
    /\ InstanceUnchanged

NextAssemble == EncodeStateBattleCall

SpecAssemble == InitAssemble /\ [][NextAssemble]_vars

-----------------------------------------------------------------------------
(* The draft remapping on its own: the lines of LOCMDraftEnv.step that turn   *)
(* the action into the chosen hand index and the chosen card                  *)

\* the orderings of k cards: the permutations of 0..k-1 as sequences
Orderings == {p \in [1..k -> 0..(k - 1)] : \A i, j \in 1..k : p[i] = p[j] => i = j}

\* codes of the action space, and Action objects whose origin lies up to
\* MaxOver outside 0..k-1
RemapActions ==
    {In("code", c) : c \in 0..(k - 1)}
    \cup {In("obj", Pick(o)) : o \in (0 - MaxOver)..(k - 1 + MaxOver)}

RemapCalls ==
    {[stage |-> "in", action |-> a, ord |-> p, hand |-> h,
      chosen_index |-> 0, chosen_card |-> Card(0, 0)]
       : a \in RemapActions, p \in Orderings, h \in OfferedHands}

InitRemap ==
    /\ \E c \in Configs("LOCMDraftEnv") : Constructed("LOCMDraftEnv", c)
    /\ pk \in RemapCalls

\* decode, remap, look the card up
RemapCall ==
    /\ pk.stage = "in"
    /\ LET action == IF pk.action.form = "obj" THEN pk.action.v
                     ELSE DecodeDraftAction(pk.action.v)
           chosen_index == ChosenIndex(action, pk.ord)
       IN  pk' = [pk EXCEPT !.stage = "out", !.chosen_index = chosen_index,
                            !.chosen_card = pk.hand[chosen_index + 1]]
    /\ InstanceUnchanged

NextRemap == RemapCall

SpecRemap == InitRemap /\ [][NextRemap]_vars

-----------------------------------------------------------------------------
(* The draft assembler on its own: _encode_state_draft for every combination  *)
(* of use_draft_history, use_mana_curve and sort_cards                        *)

ObsConfigs ==
    [play_first : {TRUE}, items : {TRUE}, use_draft_history : BOOLEAN,
     use_mana_curve : BOOLEAN, sort_cards : BOOLEAN, evaluation_battles : {1}]

\* the cards a choice history is made of: costs at both ends of 0..12
HistoryCards == {Card(1, 0), Card(3, 1), Card(2, 12)}

\* the choice histories of at most n cards
RECURSIVE Histories(_)
Histories(n) ==
    IF n = 0 THEN {<<>>}
    ELSE Histories(n - 1)
         \cup {Append(h, c) : h \in {x \in Histories(n - 1) : Len(x) = n - 1},
                              c \in HistoryCards}

\* the other player's history: a card the acting player never holds
OtherHistory == <<Card(5, 5)>>

\* the states the assembler is called on: a running draft with either player
\* about to act, or the state the draft leaves behind
ObsStates ==
    {[phase |-> "DRAFT", current |-> p, winner |-> NoWinner, invalid |-> FALSE,
      turn |-> 1, picks |-> 0, hand |-> h, decks |-> <<<<>>, <<>>>>]
        : p \in {FIRST, SECOND}, h \in OfferedHands}
    \cup {[BattleStart EXCEPT !.current = p] : p \in {FIRST, SECOND}}

DraftObsCalls ==
    {[stage |-> "in", st |-> st, own |-> h,
      ch |-> IF st.current = FIRST THEN <<h, OtherHistory>> ELSE <<OtherHistory, h>>,
      vec |-> <<>>, ord |-> <<0, 1, 2>>]
        : st \in ObsStates, h \in Histories(NPicks)}

InitDraftObs ==
    /\ \E c \in ObsConfigs : Constructed("LOCMDraftEnv", c)
    /\ pk \in DraftObsCalls

\* one call of _encode_state_draft
EncodeStateDraftCall ==
    /\ pk.stage = "in"
    /\ LET r == EncodeStateDraft(cfg, pk.st, pk.ch, pk.ord)
       IN  pk' = [pk EXCEPT !.stage = "out", !.vec = r.obs.vec,
                            !.ord = r.draft_ordering]
    /\ InstanceUnchanged

NextDraftObs == EncodeStateDraftCall

SpecDraftObs == InitDraftObs /\ [][NextDraftObs]_vars

-----------------------------------------------------------------------------
(* Properties *)

\* the episode of environment e is over in state st
Ended(e, st) == IF IsBattleEnv(e) THEN BattleIsFinished(st) ELSE DraftIsFinished(st)

\* the step at hand is the start of a call of step by the harness
StepCalled == pc = "idle" /\ resets' = resets

\* a call of step has returned its tuple
StepReturned == pc = "idle" /\ ret.call = "step" /\ ret.kind = "ok"

\* a call of reset has returned its observation
ResetReturned == pc = "idle" /\ ret.call = "reset" /\ ret.kind = "ok"

WrappedBattle == env \in {"LOCMBattleSingleEnv", "LOCMBattleSelfPlayEnv"}

\* C1: in all six environments a call of step on an ended episode raises
\* GameIsEndedError and leaves the engine state, the choice histories and the
\* reward accumulator (and the evaluation results) as they were.
C1_StepAfterEndRaises ==
    [][(StepCalled /\ Ended(env, state)) =>
          /\ ret'.call = "step" /\ ret'.kind = "GameIsEndedError"
          /\ pc' = "idle"
          /\ state' = state /\ choices' = choices /\ rewards' = rewards
          /\ results' = results /\ draft_ordering' = draft_ordering]_vars

\* a finished draft of a learner playing second was stepped again
C1_Witness ==
    /\ env = "LOCMDraftSelfPlayEnv" /\ ~play_first
    /\ DraftIsFinished(state) /\ results # <<>>
    /\ ret.call = "step" /\ ret.kind = "GameIsEndedError"

\* C2: when step of LOCMBattleSingleEnv / LOCMBattleSelfPlayEnv returns with no
\* winner decided, the current player is the one that was current when step
\* was called.
C2_ControlBackToLearner ==
    (WrappedBattle /\ StepReturned /\ state.winner = NoWinner) =>
        state.current = player

\* the opponent loop ran and handed the turn back
C2_Witness ==
    /\ WrappedBattle /\ StepReturned /\ state.winner = NoWinner
    /\ queries >= 1 /\ fallbacks = 0 /\ state.current = player

\* the seat the learner plays in the running episode
LearnerSeat == IF play_first THEN FIRST ELSE SECOND

\* C3: when step of a wrapped battle environment returns done, the reward is
\* +1 if the winner is the learner's seat and -1 if it is the other seat, for
\* both play orders.
C3_RewardFromLearnerSeat ==
    (WrappedBattle /\ StepReturned /\ ret.done) =>
        /\ state.winner \in {FIRST, SECOND}
        /\ state.winner = LearnerSeat => ret.reward = Q(1, 1)
        /\ state.winner # LearnerSeat => ret.reward = Q(0 - 1, 1)

\* a learner in the second seat won
C3_Witness ==
    /\ WrappedBattle /\ StepReturned /\ ret.done
    /\ ~play_first /\ state.winner = SECOND /\ ret.reward = Q(1, 1)

\* C4: for every battle environment and every returned step, done holds iff
\* the engine has a winner, the reward is non-zero iff done, and no engine
\* action was applied after the one that decided the winner.
C4_DoneIffWinner ==
    /\ ~actedAfterWin
    /\ (IsBattleEnv(env) /\ StepReturned) =>
          /\ ret.done <=> state.winner # NoWinner
          /\ ~QIsZero(ret.reward) <=> ret.done

\* the opponent decided the game inside the learner's step
C4_Witness ==
    /\ WrappedBattle /\ StepReturned /\ ret.done
    /\ queries >= 1 /\ winBy = "opp" /\ ~QIsZero(ret.reward)

\* a call of step of a wrapped battle environment is running or has returned
InOrAfterStep == pc = "step_opp" \/ (pc = "idle" /\ ret.call = "step")

\* C5: in step of a wrapped battle environment, once the opponent has answered
\* and all its answers were illegal, it was asked exactly once, exactly one
\* fallback step(0) was applied and the call has returned, done only if the
\* fallback ended the game; and no call applies more than one fallback.
C5_OneFallback ==
    /\ fallbacks <= 1
    /\ (WrappedBattle /\ InOrAfterStep /\ illegalOnly /\ queries >= 1) =>
          /\ StepReturned
          /\ queries = 1 /\ fallbacks = 1
          /\ ret.done => winBy = "fallback"

\* an illegal answer was followed by the fallback and the return
C5_Witness ==
    /\ WrappedBattle /\ StepReturned /\ illegalOnly
    /\ queries = 1 /\ fallbacks = 1 /\ ~ret.done

\* the learner has the first move of the episode reset just started
LearnerMovesFirst == state.current = FIRST /\ state.turn = 1 /\ queries = 0

\* the opponent has made the opening move and the learner holds the second seat
OpponentMovedFirst == state.current = SECOND /\ queries >= 1

\* C6 as stated: after every reset of a wrapped battle environment the learner
\* moves first if the instance was configured with play_first, and the
\* opponent moves first otherwise.
C6_AsStated ==
    (WrappedBattle /\ ResetReturned) =>
        IF cfg.play_first THEN LearnerMovesFirst ELSE OpponentMovedFirst

\* C6 (amended): after every reset the learner moves first iff the play_first
\* field holds; LOCMBattleSingleEnv keeps the field as configured, whereas
\* LOCMBattleSelfPlayEnv flips it in every reset, so that its r-th episode has
\* the configured order iff r is even.
C6_PlayOrderPerReset ==
    (WrappedBattle /\ ResetReturned) =>
        /\ IF play_first THEN LearnerMovesFirst ELSE OpponentMovedFirst
        /\ env = "LOCMBattleSingleEnv" => play_first = cfg.play_first
        /\ env = "LOCMBattleSelfPlayEnv" =>
              (play_first = cfg.play_first <=> resets % 2 = 0)

\* the first episode of a self-play instance configured to play first: the
\* opponent has opened
C6_Witness ==
    /\ env = "LOCMBattleSelfPlayEnv" /\ cfg.play_first /\ ResetReturned
    /\ resets = 1 /\ ~play_first /\ OpponentMovedFirst

\* C7 as stated: a call of step on a running episode with an action that is
\* neither an Action nor accepted by int() raises MalformedActionError and
\* leaves the engine state, the choices, the rewards and the results unchanged.
C7_MalformedLeavesEpisode ==
    [][(StepCalled /\ ~Ended(env, state) /\ ret'.input.form = "str") =>
          /\ ret'.kind = "MalformedActionError"
          /\ state' = state /\ choices' = choices /\ rewards' = rewards
          /\ results' = results]_vars

\* C8: in LOCMBattleEnv.step a code that decodes to no action leaves the engine
\* untouched but for the invalid flag, is reported with info.invalid, does not
\* end the episode, and leaves the next call of step acceptable.
C8_UndecodableIsInvalid ==
    [][(StepCalled /\ env = "LOCMBattleEnv" /\ ~Ended(env, state)
        /\ ret'.input = In("code", "undecodable")) =>
          /\ ret'.kind = "ok"
          /\ state' = [state EXCEPT !.invalid = TRUE]
          /\ rewards' = rewards
          /\ ret'.info.invalid /\ ~ret'.done /\ QIsZero(ret'.reward)
          /\ ~StepGuardEnded(state')]_vars

\* an undecodable code was reported invalid on a running game
C8_Witness ==
    /\ env = "LOCMBattleEnv" /\ StepReturned
    /\ ret.input = In("code", "undecodable")
    /\ ret.info.invalid /\ ~ret.done /\ state.invalid /\ state.winner = NoWinner

\* observation_space.shape of the instance
DeclaredLength ==
    IF IsBattleEnv(env) THEN BattleStateShape(cfg.items) ELSE DraftStateShape(cfg)

\* C9 as stated: every observation reset or step returns, the one of the
\* terminal step included, has the declared length.
C9_ObservationLength ==
    ((ResetReturned \/ StepReturned)) =>
        ~ret.obs.isNone /\ ret.obs.len = DeclaredLength

ZeroCard(features) == [j \in 1..features |-> 0]

\* C10: fill_cards on a list no longer than the capacity returns exactly
\* capacity entries: the input entries first, in their order, then all-zero
\* vectors of the declared feature width.
C10_FillCardsPads ==
    (pk.stage = "out" /\ Len(pk.card_list) <= pk.up_to) =>
        /\ Len(pk.packed) = pk.up_to
        /\ \A i \in 1..Len(pk.card_list) : pk.packed[i] = pk.card_list[i]
        /\ \A i \in (Len(pk.card_list) + 1)..pk.up_to :
              pk.packed[i] = ZeroCard(pk.features)

\* a hand of three cards packed into the eight hand slots
C10_Witness ==
    /\ pk.stage = "out" /\ pk.up_to = cards_in_hand
    /\ Len(pk.card_list) = 3 /\ Len(pk.packed) = cards_in_hand
    /\ pk.packed[4] = ZeroCard(pk.features)

\* the board of an assembler call holds more cards than a hand or a lane takes
OverCapacity ==
    \/ Len(pk.hand) > cards_in_hand
    \/ \E i \in 1..2 : Len(pk.own[i]) > lane_capacity \/ Len(pk.opp[i]) > lane_capacity

\* C11: with more than 8 cards in the hand or more than 3 in any lane the
\* battle assembler aborts with an error and returns no observation, for every
\* combination of over-capacity hand and lanes.
C11_OverCapacityAborts ==
    (pk.stage = "out" /\ OverCapacity) =>
        pk.result.err = "ValueError" /\ pk.result.vec = <<>>

\* a full board with one lane over its capacity was refused
C11_Witness ==
    /\ pk.stage = "out" /\ Len(pk.hand) = cards_in_hand
    /\ Len(pk.own[1]) = lane_capacity /\ Len(pk.own[2]) = lane_capacity + 1
    /\ Len(pk.opp[1]) = 0
    /\ pk.result.err = "ValueError"

\* C12: for every ordering p of the k = 3 offered cards, the codes 0, 1, 2
\* select the hand indices p[0], p[1], p[2], three distinct indices, and an
\* action whose origin is outside 0..k-1 selects hand index 0.
C12_CodesFollowOrdering ==
    pk.stage = "out" =>
        /\ pk.action.form = "code" =>
              /\ pk.chosen_index = pk.ord[pk.action.v + 1]
              /\ pk.chosen_card = pk.hand[pk.ord[pk.action.v + 1] + 1]
              /\ \A c \in 0..(k - 1) :
                    c # pk.action.v =>
                        ChosenIndex(DecodeDraftAction(c), pk.ord) # pk.chosen_index
        /\ (pk.action.form = "obj" /\ pk.action.v.origin \in 0..(k - 1)) =>
              pk.chosen_index = pk.ord[pk.action.v.origin + 1]
        /\ (pk.action.form = "obj" /\ pk.action.v.origin \notin 0..(k - 1)) =>
              pk.chosen_index = 0 /\ pk.chosen_card = pk.hand[1]

\* code 0 under the ordering <<2, 0, 1>> selected hand index 2
C12_Witness ==
    /\ pk.stage = "out" /\ pk.action = In("code", 0)
    /\ pk.ord = <<2, 0, 1>> /\ pk.chosen_index = 2
    /\ pk.chosen_card = pk.hand[3]

\* list(range(k))
IdentityOrdering == [i \in 1..k |-> i - 1]

\* the ids of the cards of hand h, in hand order
Ids(h) == [i \in 1..Len(h) |-> h[i].id]

NonDecreasing(keys) == \A i, j \in 1..Len(keys) : i < j => keys[i] <= keys[j]

\* the offers of k cards with ids 1..k that are in non-decreasing id order
SortedOffers ==
    {h \in [1..k -> {Card(i, 1) : i \in 1..k}] : NonDecreasing(Ids(h))}

\* C13: whenever step can be called on an unfinished draft after a reset,
\* draft_ordering is a permutation of 0..k-1 that belongs to the cards now
\* offered to the player about to act: the identity without sort_cards, the
\* offered cards in non-decreasing id with sort_cards, and the identity when
\* the offered ids are already non-decreasing, ties included.
C13_OrderingOfCurrentOffer ==
    /\ (pc = "idle" /\ resets >= 1 /\ ~DraftIsFinished(state)) =>
          /\ draft_ordering \in Orderings
          /\ ~cfg.sort_cards => draft_ordering = IdentityOrdering
          /\ cfg.sort_cards =>
                NonDecreasing([i \in 1..k |-> state.hand[draft_ordering[i] + 1].id])
          /\ NonDecreasing(Ids(state.hand)) => draft_ordering = IdentityOrdering
    /\ \A h \in SortedOffers : StableOrder(Ids(h)) = IdentityOrdering

\* a second offer, sorted by id with a tie, about to be picked from
C13_Witness ==
    /\ pc = "idle" /\ resets >= 1 /\ ~DraftIsFinished(state)
    /\ cfg.sort_cards /\ state.turn = 2
    /\ Ids(state.hand) = <<3, 2, 2>> /\ draft_ordering = <<1, 2, 0>>

\* positions lo+1 .. lo+n of vec (lo counted from 0, as the code's indices are)
Slice(vec, lo, n) == [i \in 1..n |-> vec[lo + i]]

Zeros(n) == [i \in 1..n |-> 0]

\* where the current-choice block starts: k * 16 positions before the end
ChoiceBase(vec) == Len(vec) - k * card_features

\* C14: while the draft is unfinished the current-choice block is the last
\* k * 16 positions of the card area, which ends where the vector ends, and
\* its i-th slot holds the encoding of the offered card draft_ordering[i];
\* once the draft has ended every position of the block is zero.
C14_ChoiceBlock ==
    pk.stage = "out" =>
        /\ Len(pk.vec) = DraftStateShape(cfg)
        /\ ~DraftIsFinished(pk.st) =>
              \A i \in 0..(k - 1) :
                  Slice(pk.vec, ChoiceBase(pk.vec) + i * card_features, card_features)
                      = EncodeDraftCard(pk.st.hand[pk.ord[i + 1] + 1])
        /\ DraftIsFinished(pk.st) =>
              Slice(pk.vec, ChoiceBase(pk.vec), k * card_features)
                  = Zeros(k * card_features)

\* a sorted offer: the first slot of the block shows the second offered card
C14_Witness ==
    /\ pk.stage = "out" /\ ~DraftIsFinished(pk.st) /\ cfg.sort_cards
    /\ cfg.use_mana_curve /\ cfg.use_draft_history
    /\ pk.ord = <<1, 2, 0>>
    /\ Slice(pk.vec, ChoiceBase(pk.vec), card_features)
          = EncodeDraftCard(pk.st.hand[2])

\* how many cards of history h cost c
CostCount(h, c) == Cardinality({i \in 1..Len(h) : h[i].cost = c})

\* the counts of the 13 cost buckets over history h
ManaCurve(h) == [c \in 1..mana_buckets |-> CostCount(h, c - 1)]

\* C15 as stated: with use_mana_curve the 13 counts occupy the final 13
\* positions of the vector, after the current-choice block.
C15_AsStated ==
    (pk.stage = "out" /\ cfg.use_mana_curve) =>
        Slice(pk.vec, Len(pk.vec) - mana_buckets, mana_buckets) = ManaCurve(pk.own)

\* C15 (amended): with use_mana_curve the 13 counts occupy the first 13
\* positions of the vector (index = cost), before the history block and the
\* current-choice block, for history on and off; the current-choice block
\* holds the final k * 16 positions.
C15_ManaCurveAtFront ==
    (pk.stage = "out" /\ cfg.use_mana_curve) =>
        /\ Slice(pk.vec, 0, mana_buckets) = ManaCurve(pk.own)
        /\ Len(pk.vec) - mana_buckets
              = (IF cfg.use_draft_history THEN NPicks + k ELSE k) * card_features
        /\ ~DraftIsFinished(pk.st) =>
              \A i \in 0..(k - 1) :
                  Slice(pk.vec, ChoiceBase(pk.vec) + i * card_features, card_features)
                      = EncodeDraftCard(pk.st.hand[pk.ord[i + 1] + 1])

\* a history of a cost-0 and a cost-12 card, counted at indices 0 and 12 while
\* the end of the vector shows the last offered card
C15_Witness ==
    /\ pk.stage = "out" /\ cfg.use_mana_curve /\ ~cfg.use_draft_history
    /\ ~DraftIsFinished(pk.st)
    /\ pk.own = <<Card(1, 0), Card(2, 12)>>
    /\ pk.vec[1] = 1 /\ pk.vec[13] = 1
    /\ pk.vec[Len(pk.vec)] # 0

\* where the history block starts: (n + k) * 16 positions before the end
HistoryBase(vec) == Len(vec) - (NPicks + k) * card_features

\* history slot j (0-based, counted from the start of the block) of vec
HistorySlot(vec, j) == Slice(vec, HistoryBase(vec) + j * card_features, card_features)

\* the acting player's history in the order the block shows it: as chosen, or
\* by ascending id with sort_cards
ShownHistory ==
    IF cfg.sort_cards
    THEN LET o == StableOrder(Ids(pk.own))
         IN  [i \in 1..Len(pk.own) |-> pk.own[o[i] + 1]]
    ELSE pk.own

ActingHistory == choices[state.current + 1]

\* a call of reset or step of a draft environment has returned a vector
DraftObsReturned ==
    (StepReturned \/ ResetReturned) /\ IsDraftEnv(env) /\ ~ret.obs.isNone

\* C17: with use_mana_curve, in every observation vector a draft environment
\* returns, whatever calls and episodes came before, the count of bucket c is
\* the number of cards of cost c in the acting player's choice history, the
\* counts sum to the length of that history, and the 13 counts lie before the
\* first position that holds card features.
C17_ManaCurveFromHistory ==
    (DraftObsReturned /\ cfg.use_mana_curve) =>
        /\ \A c \in 0..(mana_buckets - 1) :
              ret.obs.vec[c + 1] = CostCount(ActingHistory, c)
        /\ SeqSum(Slice(ret.obs.vec, 0, mana_buckets)) = Len(ActingHistory)
        /\ mana_buckets = (IF cfg.use_draft_history THEN HistoryBase(ret.obs.vec)
                                                    ELSE ChoiceBase(ret.obs.vec))

\* in the second episode, an observation for a player who has picked the
\* card of cost 12 and nothing else
C17_Witness ==
    /\ DraftObsReturned /\ cfg.use_mana_curve /\ StepReturned /\ resets = 2
    /\ ActingHistory = <<Card(2, 12)>>
    /\ ret.obs.vec[mana_buckets] = 1
    /\ ret.obs.vec[1] = 0

\* the evaluation battles the step at hand plays, as self.results shows them
BattlesPlayed == Len(results') - Len(results)

\* the winners the call at hand reports in info["winner"]
WinnersReported == IF ret'.call = "step" THEN Len(ret'.info.winner) ELSE 0

\* the step at hand is a call of step whose action completes the draft phase
CompletesDraft == StepCalled /\ ~DraftIsFinished(state) /\ DraftIsFinished(state')

\* C18: in LOCMDraftEnv the call of step whose action completes the draft
\* plays evaluation_battles battles and reports as many winners; no other
\* call (an earlier step, a step after the end, a reset) plays or reports
\* any, so that an episode holds evaluation_battles outcomes once its draft
\* is over and none before.
C18_EvaluationInOneStep ==
    [][ env = "LOCMDraftEnv" =>
          /\ CompletesDraft =>
                /\ BattlesPlayed = cfg.evaluation_battles
                /\ WinnersReported = cfg.evaluation_battles
          /\ ~CompletesDraft => (BattlesPlayed <= 0 /\ WinnersReported = 0)
          /\ Len(results') = (IF DraftIsFinished(state')
                              THEN cfg.evaluation_battles ELSE 0) ]_vars

\* the completing step of a second episode has returned, two battles played
C18_Witness ==
    /\ env = "LOCMDraftEnv" /\ StepReturned /\ ret.done /\ resets = 2
    /\ cfg.evaluation_battles = 2 /\ Len(results) = 2
    /\ Len(ret.info.winner) = 2

\* the reward of the base step behind the returned one: the wrappers negate it
\* for a learner who plays second
BaseStepReward == IF IsWrapped(env) /\ ~play_first THEN QNeg(ret.reward) ELSE ret.reward

\* the terminal step of a draft environment has returned
TerminalStepReturned == StepReturned /\ IsDraftEnv(env) /\ ret.done

\* C19: with evaluation_battles = N > 1, when the terminal step returns,
\* self.results holds exactly N outcomes, each -1 or +1, the i-th being +1
\* exactly when the i-th winner listed in info["winner"] is the first player,
\* info["winner"] lists N winners, and the raw reward is the sum of the N
\* outcomes divided by N; nothing of an earlier episode is among them.
C19_MeanOfTrials ==
    (TerminalStepReturned /\ cfg.evaluation_battles > 1) =>
        LET N == cfg.evaluation_battles
        IN  /\ Len(results) = N
            /\ Len(ret.info.winner) = N
            /\ \A i \in 1..N :
                  /\ results[i] \in {0 - 1, 1}
                  /\ results[i] = 1 <=> ret.info.winner[i] = FIRST
            /\ QEq(BaseStepReward, Q(SeqSum(results), N))

\* the second episode ends with two losses of the first player after a first
\* episode that ended with two wins
C19_Witness ==
    /\ TerminalStepReturned /\ env = "LOCMDraftEnv" /\ cfg.evaluation_battles = 2
    /\ resets = 2 /\ Len(rewards) = 3 /\ rewards[2] = Q(2, 2)
    /\ results = <<0 - 1, 0 - 1>>
    /\ ret.info.winner = <<SECOND, SECOND>>
    /\ ret.reward = Q(0 - 2, 2)

\* st is a battle about to start: first player to act, first turn, no winner
AtStartOfBattle(st) ==
    st = [BattleStart EXCEPT !.decks = st.decks, !.picks = st.picks]

\* C20: when a step completes the draft of a draft environment, with
\* evaluation_battles > 1 the live state is left as the draft left it, at the
\* start of the battle with no winner, and every trial starts from a copy
\* equal to it; with evaluation_battles = 1 the live state is left with a
\* decided winner, the one whose outcome self.results holds.
C20_TrialsOnClones ==
    [][ (IsDraftEnv(env) /\ CompletesDraft) =>
          IF cfg.evaluation_battles > 1
          THEN /\ AtStartOfBattle(state')
               /\ state'.winner = NoWinner
               /\ \A i \in 1..cfg.evaluation_battles :
                     TrialStarts(state', cfg.evaluation_battles)[i] = state'
          ELSE /\ state'.winner \in {FIRST, SECOND}
               /\ results' = <<IF state'.winner = FIRST THEN 1 ELSE 0 - 1>> ]_vars

\* two trials from the same live state ended differently, and the live state
\* has no winner
C20_Witness ==
    /\ TerminalStepReturned /\ cfg.evaluation_battles = 2
    /\ ret.info.winner = <<FIRST, SECOND>>
    /\ state.winner = NoWinner /\ AtStartOfBattle(state)

\* C21: the sequence get_episode_rewards returns has one entry for the
\* construction and one for each call of reset; a reset appends an entry equal
\* to 0 and leaves the others alone; any other step of the program leaves the
\* length and every entry but the last alone, and changes the last one only
\* when it takes the episode from running to ended.
C21_RewardsAccumulator ==
    [][ /\ Len(rewards) = resets + 1
        /\ Len(rewards') = resets' + 1
        /\ resets' # resets => rewards' = Append(rewards, Q(0, 1))
        /\ resets' = resets =>
              /\ \A i \in 1..(Len(rewards) - 1) : rewards'[i] = rewards[i]
              /\ rewards' # rewards =>
                    (~Ended(env, state) /\ Ended(env, state')) ]_vars

\* two episodes have ended with a reward other than 0, each in its own entry
C21_Witness ==
    /\ StepReturned /\ ret.done /\ resets = 2 /\ Len(rewards) = 3
    /\ rewards[1] = Q(0, 1)
    /\ ~QIsZero(rewards[2]) /\ ~QIsZero(rewards[3])

\* C22 as stated: every call of LOCMDraftEnv.step that returns appends to the
\* acting player's choice history the card the engine adds to that player's
\* deck on the same action.
C22_RecordedCardIsDrafted ==
    [][ (env = "LOCMDraftEnv" /\ StepCalled /\ ret'.kind = "ok") =>
          LET p == state.current + 1
          IN  /\ Len(choices'[p]) = Len(choices[p]) + 1
              /\ Len(state'.decks[p]) = Len(state.decks[p]) + 1
              /\ choices'[p][Len(choices'[p])]
                    = state'.decks[p][Len(state'.decks[p])] ]_vars

\* observation obs shows battle state st: who is to act, the turn, the winner
ShowsState(obs, st) == ~obs.isNone /\ obs.view = BattleObs(st, obs.len).view

\* C23 as stated: the observation reset of a wrapped battle environment
\* returns shows the engine state as it is when reset returns; for a learner
\* in the second seat that is the state after the opponent's opening turn,
\* with the learner to act.
C23_ResetObservationIsCurrent ==
    (WrappedBattle /\ ResetReturned) =>
        /\ ShowsState(ret.obs, state)
        /\ ~play_first => ret.obs.view[1] = SECOND

\* reset is in its opening loop, or has returned
InOrAfterReset == pc = "reset_opp" \/ (pc = "idle" /\ ret.call = "reset")

\* C24 as stated: wherever a wrapped battle environment runs the opponent, in
\* step and in the opening turn of reset, once the opponent has answered and
\* its answers were illegal with no winner, it was asked exactly once, exactly
\* one forced step(0) followed and the loop has ended with the call returning;
\* and no action is ever applied to a finished game.
C24_FallbackWhereverOpponentRuns ==
    /\ ~actedAfterWin
    /\ (WrappedBattle /\ (InOrAfterStep \/ InOrAfterReset)
        /\ illegalOnly /\ queries >= 1) =>
          /\ pc = "idle" /\ ret.kind = "ok"
          /\ queries = 1 /\ fallbacks = 1

\* observations a and b are the same to whoever receives them: the same
\* vector (or both None), and for a battle the same state shown
SameObservation(a, b) ==
    /\ a.isNone = b.isNone /\ a.len = b.len /\ a.vec = b.vec
    /\ IsBattleEnv(env) => a.view = b.view

\* C25 as stated: whenever the adversary policy of a self-play environment
\* has been asked, the observation it was handed is the encoding of the
\* engine state and choice histories as they were at that moment.
C25_AdversarySeesCurrentState ==
    asked.asked =>
        \E o \in EncodeState(env, cfg, asked.state, asked.choices, draft_ordering) :
            SameObservation(asked.obs, o.obs)

WrappedDraft == env \in {"LOCMDraftSingleEnv", "LOCMDraftSelfPlayEnv"}

\* history h as the history block shows it under configuration c
ShownAs(c, h) ==
    IF c.sort_cards
    THEN LET o == StableOrder(Ids(h)) IN [i \in 1..Len(h) |-> h[o[i] + 1]]
    ELSE h

\* C26 as stated: in the wrapped draft environments every observation vector
\* reset and step return to the learner has its history block and its mana
\* curve built from the choice history of the learner's seat.
C26_LearnerOwnHistory ==
    (WrappedDraft /\ DraftObsReturned) =>
        LET own == choices[LearnerSeat + 1]
        IN  /\ cfg.use_draft_history =>
                  /\ \A j \in 0..(Len(own) - 1) :
                        HistorySlot(ret.obs.vec, j)
                            = EncodeDraftCard(ShownAs(cfg, own)[j + 1])
                  /\ \A j \in Len(own)..(NPicks - 1) :
                        HistorySlot(ret.obs.vec, j) = Zeros(card_features)
            /\ cfg.use_mana_curve =>
                  Slice(ret.obs.vec, 0, mana_buckets) = ManaCurve(own)

\* the rewards step has returned to the learner in the running episode, summed
\* up, as seen when a call returns: a step returns a reward other than 0 only
\* with done, and no step returns after that
EpisodeReturn == IF ret.call = "step" /\ ret.done THEN ret.reward ELSE Q(0, 1)

\* C27 as stated: in LOCMBattleSingleEnv, LOCMBattleSelfPlayEnv and
\* LOCMDraftSingleEnv, whenever reset or step returns, the last entry of
\* get_episode_rewards equals the sum of the rewards step has returned to the
\* learner in the running episode.
C27_AccumulatorInLearnerView ==
    ((WrappedBattle \/ env = "LOCMDraftSingleEnv")
     /\ (ResetReturned \/ StepReturned)) =>
        QEq(rewards[Len(rewards)], EpisodeReturn)

\* C28 as stated: every call of step of a wrapped draft environment on an
\* unfinished draft starts with the first seat to pick and records exactly one
\* pick for each seat, so that both choice histories have the same length
\* afterwards, at most n; and the call reports done exactly when that length
\* is n.
C28_TwoPicksPerStep ==
    [][ (WrappedDraft /\ StepCalled /\ ~DraftIsFinished(state)) =>
          /\ state.current = FIRST
          /\ Len(choices'[1]) = Len(choices[1]) + 1
          /\ Len(choices'[2]) = Len(choices[2]) + 1
          /\ Len(choices'[1]) = Len(choices'[2])
          /\ Len(choices'[1]) <= NPicks
          /\ ret'.done <=> Len(choices'[1]) = NPicks ]_vars

\* the engine rejects the learner's action of the returned step, or the code
\* handed in decodes to no action
LearnerActionInvalid == ret.input.v \in {"illegal", "undecodable"}

\* C29: when step of a wrapped battle environment returns, info.invalid is
\* the invalid flag of the learner's own action of that call, whatever the
\* opponent answered and whether the fallback was applied, and info.phase,
\* info.turn and info.winner are those of the engine state the call leaves.
C29_InvalidIsTheLearners ==
    (WrappedBattle /\ StepReturned) =>
        /\ ret.info.invalid = LearnerActionInvalid
        /\ ret.info.phase = state.phase
        /\ ret.info.turn = state.turn
        /\ ret.info.winner = state.winner

\* the learner passed, the opponent's answer was rejected and the fallback was
\* applied: the call reports the learner's flag
C29_Witness ==
    /\ WrappedBattle /\ StepReturned /\ ret.input = In("obj", "pass")
    /\ queries = 1 /\ fallbacks = 1 /\ illegalOnly
    /\ ~ret.info.invalid /\ ret.info.winner = NoWinner

====
